---- MODULE Spec2Model ----
(***************************************************************************)
(* A model of the mcp-markdown server (src/server.py): the bearer-token    *)
(* extractor, the file-id resolver, the failure classifiers, and the tool  *)
(* call convert_to_markdown with the progress heartbeat that runs beside   *)
(* the blocking export.                                                    *)
(*                                                                         *)
(* Text is a sequence of one-character strings, so that prefix tests,      *)
(* slices, lower-casing and substring search are computed, not assumed.    *)
(* Time is a clock of ticks, TicksPerUnit ticks to the second; a timer     *)
(* that is due fires before the clock moves on.                            *)
(*                                                                         *)
(* asyncio.TimeoutError is taken to be the builtin TimeoutError (Python    *)
(* 3.11 and later), which is what the handler at server.py:143 names.      *)
(***************************************************************************)
EXTENDS Integers, Sequences, FiniteSets, TLC

(***************************************************************************)
(* Bounds of the model.                                                    *)
(***************************************************************************)
\* ticks of the clock in one time unit (one second)
TicksPerUnit == 2
\* the longest blocking export, in ticks
MaxDur == 7
\* the longest a sink call takes to return, in ticks
MaxSinkDelay == 1
\* the most raw header pairs of a request
MaxPairs == 2

\* the longest export, in ticks, that is followed under fairness
FairMaxDur == 3

\* the longest export, in ticks, of two calls followed together
TwoMaxDur == 3

\* the most fragments an input string is put together from
MaxUrlParts == 4

(***************************************************************************)
(* Program constants.                                                      *)
(***************************************************************************)
\* asyncio.sleep(1.0) in the heartbeat loop
HeartbeatInterval == 1
\* asyncio.wait_for(progress_task, timeout=1.0)
StopTimeout == 1
\* len("Bearer "), the slice auth_header[7:]
BearerLen == 7
\* progress_count = 1
FirstProgress == 1

(***************************************************************************)
(* Text.                                                                   *)
(***************************************************************************)
UpperCase ==
  <<"A","B","C","D","E","F","G","H","I","J","K","L","M",
    "N","O","P","Q","R","S","T","U","V","W","X","Y","Z">>

LowerCase ==
  <<"a","b","c","d","e","f","g","h","i","j","k","l","m",
    "n","o","p","q","r","s","t","u","v","w","x","y","z">>

Digits == {"0","1","2","3","4","5","6","7","8","9"}

Range(s) == {s[i] : i \in 1..Len(s)}

\* str.lower() on one character
LowerChar(c) ==
  IF \E i \in 1..26 : UpperCase[i] = c
  THEN LowerCase[CHOOSE i \in 1..26 : UpperCase[i] = c]
  ELSE c

\* str.lower()
Lower(s) == [i \in 1..Len(s) |-> LowerChar(s[i])]

\* str.startswith(p)
StartsWith(s, p) == Len(s) >= Len(p) /\ SubSeq(s, 1, Len(p)) = p

\* p in s
Contains(s, p) ==
  \E i \in 0..(Len(s) - Len(p)) : SubSeq(s, i + 1, i + Len(p)) = p

\* s[n:]
DropFirst(s, n) == SubSeq(s, n + 1, Len(s))

\* a byte that is no valid UTF-8
BadByte == "0xFF"

\* Python values that may or may not be a string: None, a str, or another type
NoneV == [t |-> "none", s |-> <<>>]
StrV(s) == [t |-> "str", s |-> s]
OtherV == [t |-> "other", s |-> <<>>]
\* a raised exception, as the result of an expression
RaisedV == [t |-> "raise", s |-> <<>>]

\* truthiness of None / str
Truthy(v) == v.t = "other" \/ (v.t = "str" /\ v.s # <<>>)

sBearer == <<"B","e","a","r","e","r"," ">>
sBearerLower == <<"b","e","a","r","e","r"," ">>
sBasic == <<"B","a","s","i","c"," ">>
sAuthorizationLower == <<"a","u","t","h","o","r","i","z","a","t","i","o","n">>
sAuthorizationUpper == <<"A","U","T","H","O","R","I","Z","A","T","I","O","N">>
sContentType == <<"c","o","n","t","e","n","t","-","t","y","p","e">>

sXYZ == <<"X","Y","Z">>
sT1 == <<"T","1">>
sT2 == <<"T","2">>

(***************************************************************************)
(* The inbound request, as extract_bearer_token probes it.                 *)
(*   rc       ctx.request_context: "raise" (the property raises), "none",  *)
(*            or "obj"                                                     *)
(*   request  request_context.request: "noattr", "falsy" or "obj"          *)
(*   headers  request.headers: "noattr" or "map"                           *)
(*   lower    headers.get("authorization")                                 *)
(*   cap      headers.get("Authorization")                                 *)
(*   scope    request_context.scope: "none" (missing or None), "empty",    *)
(*            "nokey" (no "headers" key) or "list"                         *)
(*   pairs    scope["headers"], entries [t, k, v]: t = "pair" with the     *)
(*            bytes k and v, or t = "malformed" (not a pair of bytes)      *)
(***************************************************************************)
Pair(k, v) == [t |-> "pair", k |-> k, v |-> v]
Malformed == [t |-> "malformed", k |-> <<>>, v |-> <<>>]

Request(rc, request, headers, lower, cap, scope, pairs) ==
  [rc |-> rc, request |-> request, headers |-> headers, lower |-> lower,
   cap |-> cap, scope |-> scope, pairs |-> pairs]

\* bytes.decode("utf-8") succeeds
Decodable(b) == BadByte \notin Range(b)

\* a decode error that ends the scan with None
OnDecodeErrorMut(rest) == IF rest = rest THEN NoneV ELSE rest

\* the handler of UnicodeDecodeError, lines 289-293: the loop continues
OnDecodeError(rest) == rest

\* a lookup under the lower-case name only
HeaderLookupMut(r) == r.lower

\* headers.get("authorization") or headers.get("Authorization")
HeaderLookup(r) == IF Truthy(r.lower) THEN r.lower ELSE r.cap

\* no result from the structured shape: control falls to the raw pairs
FallThrough == [t |-> "fall", s |-> <<>>]

\* lines 248-259: the structured request
StructuredShape(r) ==
  IF r.request = "obj" /\ r.headers = "map"
  THEN LET auth_header == HeaderLookup(r) IN
       IF ~Truthy(auth_header) THEN FallThrough
       ELSE IF auth_header.t # "str" THEN RaisedV
       ELSE IF StartsWith(auth_header.s, sBearer)
            THEN StrV(DropFirst(auth_header.s, BearerLen))
            ELSE FallThrough
  ELSE FallThrough

\* an authorization pair of another scheme ends the scan with None
MatchPairMut(header_name, header_value, rest) ==
  IF header_name = sAuthorizationLower
  THEN IF StartsWith(header_value, sBearer)
       THEN StrV(DropFirst(header_value, BearerLen))
       ELSE NoneV
  ELSE rest

\* lines 279-287: one decoded pair; rest is the result of scanning on
MatchPair(header_name, header_value, rest) ==
  IF header_name = sAuthorizationLower
  THEN IF StartsWith(header_value, sBearer)
       THEN StrV(DropFirst(header_value, BearerLen))
       ELSE rest
  ELSE rest

\* lines 272-296: the loop over scope["headers"]
RECURSIVE ScanPairs(_)
ScanPairs(ps) ==
  IF ps = <<>> THEN NoneV
  ELSE LET e == Head(ps) IN
       IF e.t # "pair" THEN RaisedV
       ELSE IF ~Decodable(e.k) \/ ~Decodable(e.v)
            THEN OnDecodeError(ScanPairs(Tail(ps)))
            ELSE MatchPair(Lower(e.k), e.v, ScanPairs(Tail(ps)))

\* lines 261-296: the raw pairs of the transport scope
RawShape(r) ==
  IF r.scope \in {"none", "empty"} THEN NoneV
  ELSE IF r.scope = "nokey" THEN NoneV
  ELSE ScanPairs(r.pairs)

\* lines 244-296: the body of the try
ExtractBody(r) ==
  IF r.rc = "raise" THEN RaisedV
  ELSE IF r.rc = "none" THEN NoneV
  ELSE LET s == StructuredShape(r) IN
       IF s = FallThrough THEN RawShape(r) ELSE s

\* no handler: the error leaves the function
OnExtractErrorMut(b) == b

\* lines 298-307: except Exception: return None
OnExtractError(b) == IF b.t = "raise" THEN NoneV ELSE b

\* lines 237-307
extract_bearer_token(r) == OnExtractError(ExtractBody(r))

(***************************************************************************)
(* The requests the model draws from.                                      *)
(***************************************************************************)
HeaderValues ==
  {NoneV, OtherV, StrV(<<>>), StrV(sBearer \o sXYZ), StrV(sBearer),
   StrV(sBasic \o sXYZ), StrV(sBearerLower \o sXYZ)}

\* the raw pairs: a Bearer pair, one under an upper-case name, another
\* scheme, an empty token, another header, an undecodable value, an
\* undecodable name, and an entry that is no pair of bytes
Entries ==
  {Pair(sAuthorizationLower, sBearer \o sT1),
   Pair(sAuthorizationUpper, sBearer \o sT2),
   Pair(sAuthorizationLower, sBasic \o sXYZ),
   Pair(sAuthorizationLower, sBearer),
   Pair(sContentType, sBearer \o sT1),
   Pair(sAuthorizationLower, <<BadByte, "T">>),
   Pair(<<BadByte>>, sBearer \o sT1),
   Malformed}

PairLists == UNION {[1..n -> Entries] : n \in 0..MaxPairs}

\* every shape of the request context, each written once
AllRequests ==
  {Request("raise", "noattr", "noattr", NoneV, NoneV, "none", <<>>),
   Request("none", "noattr", "noattr", NoneV, NoneV, "none", <<>>)}
  \cup
  {Request("obj", rq[1], rq[2], hv[1], hv[2], sc, <<>>) :
     rq \in {<<"noattr", "noattr">>, <<"falsy", "noattr">>,
             <<"obj", "noattr">>},
     hv \in {<<NoneV, NoneV>>},
     sc \in {"none", "empty", "nokey"}}
  \cup
  {Request("obj", rq[1], rq[2], hv[1], hv[2], "list", ps) :
     rq \in {<<"noattr", "noattr">>, <<"falsy", "noattr">>,
             <<"obj", "noattr">>},
     hv \in {<<NoneV, NoneV>>},
     ps \in PairLists}
  \cup
  {Request("obj", "obj", "map", lo, ca, sc, <<>>) :
     lo \in HeaderValues, ca \in HeaderValues,
     sc \in {"none", "empty", "nokey"}}
  \cup
  {Request("obj", "obj", "map", lo, ca, "list", ps) :
     lo \in HeaderValues, ca \in HeaderValues, ps \in PairLists}

(***************************************************************************)
(* extract_file_id.                                                        *)
(***************************************************************************)
sSlashD == <<"/","d","/">>
sIdEq == <<"i","d","=">>

\* the character class [a-zA-Z0-9-_]
IdChars == Range(UpperCase) \cup Range(LowerCase) \cup Digits \cup {"-", "_"}

Whitespace == {" ", "\t", "\n"}

\* the last index of the longest run of identifier characters from index i
RunEnd(s, i) ==
  CHOOSE j \in (i - 1)..Len(s) :
    /\ \A k \in i..j : s[k] \in IdChars
    /\ j = Len(s) \/ s[j + 1] \notin IdChars

\* re.search(prefix + "([a-zA-Z0-9-_]+)", s): group 1 of the leftmost match
SearchGroup(s, prefix) ==
  LET n == Len(prefix)
      at == {i \in 1..(Len(s) - n) :
               SubSeq(s, i, i + n - 1) = prefix /\ s[i + n] \in IdChars}
  IN IF at = {} THEN NoneV
     ELSE LET i == CHOOSE a \in at : \A b \in at : a <= b
          IN StrV(SubSeq(s, i + n, RunEnd(s, i + n)))

\* no stripping of the input
StripMut(s) == s

\* str.strip()
Strip(s) ==
  LET keep == {i \in 1..Len(s) : s[i] \notin Whitespace} IN
  IF keep = {} THEN <<>>
  ELSE SubSeq(s, CHOOSE a \in keep : \A b \in keep : a <= b,
                 CHOOSE a \in keep : \A b \in keep : a >= b)

\* re.match("^[a-zA-Z0-9-_]+$", s), s stripped
FullMatch(s) == s # <<>> /\ \A i \in 1..Len(s) : s[i] \in IdChars

\* the query pattern tried before the path pattern
extract_file_idMut(u) ==
  LET path == SearchGroup(u, sSlashD)
      query == SearchGroup(u, sIdEq)
  IN IF query # NoneV THEN query
     ELSE IF path # NoneV THEN path
     ELSE IF FullMatch(Strip(u)) THEN StrV(Strip(u))
     ELSE NoneV

\* lines 99-114
extract_file_id(u) ==
  LET path == SearchGroup(u, sSlashD)
      query == SearchGroup(u, sIdEq)
  IN IF path # NoneV THEN path
     ELSE IF query # NoneV THEN query
     ELSE IF FullMatch(Strip(u)) THEN StrV(Strip(u))
     ELSE NoneV

uDocsUrl ==
  <<"h","t","t","p","s",":","/","/","d","o","c","s",".","g","o","o","g","l","e",
    ".","c","o","m","/","d","o","c","u","m","e","n","t","/","d","/",
    "A","B","C","1","2","3","/","e","d","i","t">>
uBareId == <<"A","B","C","1","2","3">>
uNotValid ==
  <<"n","o","t"," ","a"," ","v","a","l","i","d"," ","i","d","!","!">>

(***************************************************************************)
(* The classification of failures by their message.                       *)
(***************************************************************************)
sCredentials == <<"c","r","e","d","e","n","t","i","a","l","s">>
sAuthentication == <<"a","u","t","h","e","n","t","i","c","a","t","i","o","n">>
sUnauthorized == <<"u","n","a","u","t","h","o","r","i","z","e","d">>
sInvalidGrant == <<"i","n","v","a","l","i","d","_","g","r","a","n","t">>
sToken == <<"t","o","k","e","n">>
sRefreshToken == <<"r","e","f","r","e","s","h","_">> \o sToken
sNecessaryFields ==
  sCredentials \o
  <<" ","d","o"," ","n","o","t"," ","c","o","n","t","a","i","n"," ","t","h","e",
    " ","n","e","c","e","s","s","a","r","y"," ","f","i","e","l","d","s">>

\* the list of lines 85-91
BuildAuthPhrases ==
  {sCredentials, sAuthentication, sUnauthorized, sInvalidGrant, sToken}

\* the list of lines 162-169
ExportAuthPhrases ==
  {sNecessaryFields, sRefreshToken, sInvalidGrant, sUnauthorized,
   sAuthentication, sToken}

\* any(auth_error in error_str for auth_error in phrases), error_str lowered
MatchesAny(msg, phrases) == \E p \in phrases : Contains(Lower(msg), p)

\* a classification that does not lower-case the message
ClassifyBuildErrorMut(exc, msg) ==
  IF exc = "ImportError" THEN "InternalFailure"
  ELSE IF \E p \in BuildAuthPhrases : Contains(msg, p) THEN "AuthenticationFailure"
  ELSE "InternalFailure"

\* lines 65-97: the ValueError the constructor raises.  "InternalFailure"
\* stands for "Google API client libraries not installed ..." and for
\* "Failed to initialize Google Drive service: ...", "AuthenticationFailure"
\* for "Authentication failed: Invalid or expired Google Drive credentials ..."
ClassifyBuildError(exc, msg) ==
  IF exc = "ImportError" THEN "InternalFailure"
  ELSE IF MatchesAny(msg, BuildAuthPhrases) THEN "AuthenticationFailure"
  ELSE "InternalFailure"

\* lines 146-175: the ValueError export_to_markdown raises.  "BackendFailure"
\* stands for "Failed to export document: ..."
ClassifyExportError(msg) ==
  IF MatchesAny(msg, ExportAuthPhrases) THEN "AuthenticationFailure"
  ELSE "BackendFailure"

mInvalid == <<"I","n","v","a","l","i","d"," ">>
mInvalidCredentials == mInvalid \o <<"C","r","e","d","e","n","t","i","a","l","s">>
mUnauthorized == <<"U","n","a","u","t","h","o","r","i","z","e","d">>
mAuthRequired ==
  <<"A","u","t","h","e","n","t","i","c","a","t","i","o","n"," ","r","e","q","u","i","r","e","d">>
mTokenExpired == <<"T","o","k","e","n"," ","e","x","p","i","r","e","d">>
mMissingRefresh == <<"m","i","s","s","i","n","g"," ">> \o sRefreshToken
mTheFields == <<"T","h","e"," ">> \o sNecessaryFields
mNotFound == <<"F","i","l","e"," ","n","o","t"," ","f","o","u","n","d">>
mQuota == <<"q","u","o","t","a"," ","e","x","c","e","e","d","e","d">>
mHttp == <<"H","T","T","P"," ","5","0","0",":"," ">>
mNoModule ==
  <<"N","o"," ","m","o","d","u","l","e"," ","n","a","m","e","d"," ","g","o","o","g","l","e">>
mCannotImport ==
  <<"c","a","n","n","o","t"," ","i","m","p","o","r","t"," ","n","a","m","e"," ",
    "C","r","e","d","e","n","t","i","a","l","s">>
mSessionClosed == <<"s","e","s","s","i","o","n"," ","c","l","o","s","e","d">>
mProgressToken ==
  <<"u","n","k","n","o","w","n"," ","p","r","o","g","r","e","s","s","T","o","k","e","n">>

\* messages of the failures the backend raises
ErrorMessages ==
  {pre \o core :
     pre \in {<<>>, mHttp},
     core \in {<<>>, mInvalidCredentials, sInvalidGrant, mUnauthorized,
               mAuthRequired, mTokenExpired, mMissingRefresh, mTheFields,
               mNotFound, mQuota}}

\* messages of a failed import of the client libraries
ImportMessages == {mNoModule, mCannotImport}

\* messages of a failing progress sink
SinkMessages == {mSessionClosed, mProgressToken}

(***************************************************************************)
(* State.  Each call of the tool has its own request, service object,      *)
(* export thread, stop event and heartbeat task; the clock is shared.      *)
(***************************************************************************)
VARIABLES
  now,        \* the clock, in ticks
  req,        \* ctx's request context, per call
  url,        \* the url argument
  hasSink,    \* whether export_to_markdown is given a ctx
  pc,         \* where convert_to_markdown / export_to_markdown stands
  token,      \* access_token
  fileId,     \* file_id
  builds,     \* number of session constructions invoked
  buildErr,   \* the exception the construction raised
  outcome,    \* how the tool call ended
  cancelReq,  \* the request's cancel scope was cancelled
  exState,    \* the blocking export in its thread
  exStarts,   \* number of times the export was started
  exBegin,    \* when it started
  exEnd,      \* when it resolves
  exErr,      \* the message of its failure
  stop,       \* stop_progress (threading.Event)
  hb,         \* progress_task: none, ready, sleeping, inSink, done
  hbCount,    \* progress_count
  hbTimer,    \* when asyncio.sleep returns
  hbCancel,   \* a cancellation of progress_task is pending
  waitTimer,  \* when asyncio.wait_for times out
  sinkCall,   \* the report_progress call in flight
  sinkLog     \* the report_progress calls made, in order

inputVars == <<req, url, hasSink>>
toolVars == <<token, fileId, builds, buildErr>>
exportVars == <<exState, exStarts, exBegin, exEnd, exErr>>
hbVars == <<hb, hbCount, hbTimer>>
sinkVars == <<sinkCall, sinkLog>>
vars ==
  <<now, req, url, hasSink, pc, token, fileId, builds, buildErr, outcome,
    cancelReq, exState, exStarts, exBegin, exEnd, exErr, stop, hb, hbCount,
    hbTimer, hbCancel, waitTimer, sinkCall, sinkLog>>

Calls == {"c1", "c2"}

UnsetV == [t |-> "unset", s |-> <<>>]
NoError == [exc |-> "none", msg |-> <<>>]
NoOutcome == [type |-> "none", kind |-> "none"]
NoSinkCall == [active |-> FALSE, by |-> "none", ret |-> 0, res |-> "ok", msg |-> <<>>]

Returned(text) == [type |-> "return", kind |-> text]
ToolError(kind) == [type |-> "ToolError", kind |-> kind]
Escaped(exc) == [type |-> exc, kind |-> "none"]

\* the clock stops here: every call has ended before
MaxTime == MaxDur + 3 * MaxSinkDelay + 3 * TicksPerUnit

\* asyncio.sleep(1.0), in ticks
SleepTicks == HeartbeatInterval * TicksPerUnit

\* wait_for(..., timeout=1.0), in ticks
TimeoutTicks == StopTimeout * TicksPerUnit

(***************************************************************************)
(* The progress sink (ctx.report_progress), an external collaborator: a    *)
(* call returns or raises after some time, or does not return.             *)
(***************************************************************************)
SinkBehaviours(msgs) ==
  {[res |-> "ok", delay |-> d, msg |-> <<>>] : d \in 0..MaxSinkDelay}
  \cup {[res |-> "raise", delay |-> d, msg |-> m] : d \in 0..MaxSinkDelay, m \in msgs}
  \cup {[res |-> "hang", delay |-> 0, msg |-> <<>>]}

\* the call is made: it is logged, and in flight until it returns
CallSink(c, by, value, b) ==
  /\ sinkLog' = [sinkLog EXCEPT ![c] =
       Append(@, [v |-> value, by |-> by, late |-> pc[c] = "done",
                  res |-> b.res, delay |-> b.delay])]
  /\ sinkCall' = [sinkCall EXCEPT ![c] =
       [active |-> TRUE, by |-> by, ret |-> now + b.delay, res |-> b.res,
        msg |-> b.msg]]

SinkDue(c, by, res) ==
  /\ sinkCall[c].active
  /\ sinkCall[c].by = by
  /\ sinkCall[c].res = res
  /\ now >= sinkCall[c].ret

(***************************************************************************)
(* convert_to_markdown, lines 314-370.                                     *)
(***************************************************************************)
\* the check of the token left out
TokenMissingMut(tok) == FALSE

\* line 328: if not access_token
TokenMissing(tok) == ~Truthy(tok)

\* lines 327-332
ExtractToken(c) ==
  /\ pc[c] = "start"
  /\ LET tok == extract_bearer_token(req[c]) IN
     /\ token' = [token EXCEPT ![c] = tok]
     /\ IF tok.t = "raise"
        THEN /\ pc' = [pc EXCEPT ![c] = "done"]
             /\ outcome' = [outcome EXCEPT ![c] = Escaped("Exception")]
        ELSE IF TokenMissing(tok)
        THEN /\ pc' = [pc EXCEPT ![c] = "done"]
             /\ outcome' = [outcome EXCEPT ![c] = ToolError("AuthenticationMissing")]
        ELSE /\ pc' = [pc EXCEPT ![c] = "build"]
             /\ UNCHANGED outcome
  /\ UNCHANGED <<now, inputVars, fileId, builds, buildErr, cancelReq,
                 exportVars, stop, hbVars, hbCancel, waitTimer, sinkVars>>

\* what constructing the session does: it succeeds, the import of the
\* client libraries fails, or Credentials / build raise
BuildResults ==
  {NoError}
  \cup {[exc |-> "ImportError", msg |-> m] : m \in ImportMessages}
  \cup {[exc |-> "Exception", msg |-> m] : m \in ErrorMessages}

\* line 336, GoogleDriveService.__init__ (lines 52-97), and lines 355-361
BuildService(c) ==
  /\ pc[c] = "build"
  /\ builds' = [builds EXCEPT ![c] = @ + 1]
  /\ \E r \in BuildResults :
       /\ buildErr' = [buildErr EXCEPT ![c] = r]
       /\ IF r = NoError
          THEN /\ pc' = [pc EXCEPT ![c] = "resolve"]
               /\ UNCHANGED outcome
          ELSE /\ pc' = [pc EXCEPT ![c] = "done"]
               /\ outcome' = [outcome EXCEPT ![c] =
                    ToolError(ClassifyBuildError(r.exc, r.msg))]
  /\ UNCHANGED <<now, inputVars, token, fileId, cancelReq, exportVars, stop,
                 hbVars, hbCancel, waitTimer, sinkVars>>

\* lines 338-343
ResolveId(c) ==
  /\ pc[c] = "resolve"
  /\ LET id == extract_file_id(url[c]) IN
     /\ fileId' = [fileId EXCEPT ![c] = id]
     /\ IF ~Truthy(id)
        THEN /\ pc' = [pc EXCEPT ![c] = "done"]
             /\ outcome' = [outcome EXCEPT ![c] = ToolError("InvalidInput")]
        ELSE /\ pc' = [pc EXCEPT ![c] = "emit0"]
             /\ UNCHANGED outcome
  /\ UNCHANGED <<now, inputVars, token, builds, buildErr, cancelReq,
                 exportVars, stop, hbVars, hbCancel, waitTimer, sinkVars>>

(***************************************************************************)
(* export_to_markdown, lines 116-175.                                      *)
(***************************************************************************)
\* lines 119-121: the initial progress notification
EmitInitial(c) ==
  /\ pc[c] = "emit0"
  /\ IF hasSink[c]
     THEN /\ \E b \in SinkBehaviours(SinkMessages) : CallSink(c, "orch", 0, b)
          /\ pc' = [pc EXCEPT ![c] = "await0"]
     ELSE /\ pc' = [pc EXCEPT ![c] = "spawn"]
          /\ UNCHANGED sinkVars
  /\ UNCHANGED <<now, inputVars, toolVars, outcome, cancelReq, exportVars,
                 stop, hbVars, hbCancel, waitTimer>>

\* line 121: report_progress(0) returned
InitialReturn(c) ==
  /\ pc[c] = "await0"
  /\ ~cancelReq[c]
  /\ SinkDue(c, "orch", "ok")
  /\ sinkCall' = [sinkCall EXCEPT ![c] = NoSinkCall]
  /\ pc' = [pc EXCEPT ![c] = "spawn"]
  /\ UNCHANGED <<now, inputVars, toolVars, outcome, cancelReq, exportVars,
                 stop, hbVars, hbCancel, waitTimer, sinkLog>>

\* line 121 raised: the handler of lines 146-175, then lines 355-361
InitialRaise(c) ==
  /\ pc[c] = "await0"
  /\ ~cancelReq[c]
  /\ SinkDue(c, "orch", "raise")
  /\ outcome' = [outcome EXCEPT ![c] =
       ToolError(ClassifyExportError(sinkCall[c].msg))]
  /\ sinkCall' = [sinkCall EXCEPT ![c] = NoSinkCall]
  /\ pc' = [pc EXCEPT ![c] = "done"]
  /\ UNCHANGED <<now, inputVars, toolVars, cancelReq, exportVars, stop,
                 hbVars, hbCancel, waitTimer, sinkLog>>

\* lines 124-135: the stop event, the heartbeat task, the export in a thread
StartExport(c) ==
  /\ pc[c] = "spawn"
  /\ stop' = [stop EXCEPT ![c] = FALSE]
  /\ hb' = [hb EXCEPT ![c] = IF hasSink[c] THEN "ready" ELSE "none"]
  /\ exState' = [exState EXCEPT ![c] = "running"]
  /\ exStarts' = [exStarts EXCEPT ![c] = @ + 1]
  /\ exBegin' = [exBegin EXCEPT ![c] = now]
  /\ \E d \in 1..MaxDur : exEnd' = [exEnd EXCEPT ![c] = now + d]
  /\ pc' = [pc EXCEPT ![c] = "awaitExport"]
  /\ UNCHANGED <<now, inputVars, toolVars, outcome, cancelReq, exErr, hbCount,
                 hbTimer, hbCancel, waitTimer, sinkVars>>

\* how the backend answers the export
ExportResults == {NoError} \cup {[exc |-> "Exception", msg |-> m] : m \in ErrorMessages}

\* _export_to_markdown_sync, lines 177-215: returns the text or re-raises
ExportFinish(c) ==
  /\ exState[c] = "running"
  /\ now >= exEnd[c]
  /\ \E r \in ExportResults :
       /\ exState' = [exState EXCEPT ![c] = IF r = NoError THEN "ok" ELSE "failed"]
       /\ exErr' = [exErr EXCEPT ![c] = r.msg]
  /\ UNCHANGED <<now, inputVars, pc, toolVars, outcome, cancelReq, exStarts,
                 exBegin, exEnd, stop, hbVars, hbCancel, waitTimer, sinkVars>>

\* the stop event left as it is
StopValueMut(c) == stop[c]

\* line 140: stop_progress.set()
StopValue(c) == TRUE

\* lines 137-142: the export resolved; stop the heartbeat and wait for it
OrchResume(c) ==
  /\ pc[c] = "awaitExport"
  /\ exState[c] \in {"ok", "failed"}
  /\ IF hb[c] # "none"
     THEN /\ stop' = [stop EXCEPT ![c] = StopValue(c)]
          /\ waitTimer' = [waitTimer EXCEPT ![c] = now + TimeoutTicks]
          /\ pc' = [pc EXCEPT ![c] = "waitHb"]
     ELSE /\ pc' = [pc EXCEPT ![c] = "finish"]
          /\ UNCHANGED <<stop, waitTimer>>
  /\ UNCHANGED <<now, inputVars, toolVars, outcome, cancelReq, exportVars,
                 hbVars, hbCancel, sinkVars>>

\* a wait that does not wait for the task to finish
WaitFinishedMut(c) == TRUE

\* line 142: wait_for returns once the task it waits for has finished
WaitFinished(c) == hb[c] = "done"

\* line 142: the heartbeat task ended within the timeout
WaitDone(c) ==
  /\ pc[c] = "waitHb"
  /\ WaitFinished(c)
  /\ pc' = [pc EXCEPT ![c] = "finish"]
  /\ UNCHANGED <<now, inputVars, toolVars, outcome, cancelReq, exportVars,
                 stop, hbVars, hbCancel, waitTimer, sinkVars>>

\* a wait without a timeout
TimedOutMut(c) == FALSE

\* line 142: timeout=1.0 has passed since the wait began
TimedOut(c) == now >= waitTimer[c]

\* line 142: the timeout expired; wait_for cancels the task and awaits it
WaitTimeout(c) ==
  /\ pc[c] = "waitHb"
  /\ ~cancelReq[c]
  /\ TimedOut(c)
  /\ hb[c] # "done"
  /\ hbCancel' = [hbCancel EXCEPT ![c] = TRUE]
  /\ pc' = [pc EXCEPT ![c] = "waitCancel"]
  /\ UNCHANGED <<now, inputVars, toolVars, outcome, cancelReq, exportVars,
                 stop, hbVars, waitTimer, sinkVars>>

\* lines 143-144: TimeoutError is caught; progress_task.cancel()
TimeoutCaught(c) ==
  /\ pc[c] = "waitCancel"
  /\ hb[c] = "done"
  /\ pc' = [pc EXCEPT ![c] = "finish"]
  /\ UNCHANGED <<now, inputVars, toolVars, outcome, cancelReq, exportVars,
                 stop, hbVars, hbCancel, waitTimer, sinkVars>>

\* no handler: the error of the export leaves the tool as it is
ExportOutcomeMut(c) ==
  IF exState[c] = "ok" THEN Returned("Success") ELSE Escaped("Exception")

\* the outcome of the export alone: line 136, or lines 146-175 and 355-361
ExportOutcome(c) ==
  IF exState[c] = "ok" THEN Returned("Success")
  ELSE ToolError(ClassifyExportError(exErr[c]))

\* after the finally block: return the text, or classify the failure
Conclude(c) ==
  /\ pc[c] = "finish"
  /\ outcome' = [outcome EXCEPT ![c] = ExportOutcome(c)]
  /\ pc' = [pc EXCEPT ![c] = "done"]
  /\ UNCHANGED <<now, inputVars, toolVars, cancelReq, exportVars, stop,
                 hbVars, hbCancel, waitTimer, sinkVars>>

(***************************************************************************)
(* Cancellation of the request by the protocol server (a cancel scope):    *)
(* it takes effect where the call awaits, and the wait for the export      *)
(* thread is shielded (anyio.to_thread.run_sync, line 133).                *)
(***************************************************************************)
Cancel(c) ==
  /\ ~cancelReq[c]
  /\ pc[c] \in {"await0", "awaitExport", "waitHb"}
  /\ cancelReq' = [cancelReq EXCEPT ![c] = TRUE]
  /\ UNCHANGED <<now, inputVars, pc, toolVars, outcome, exportVars, stop,
                 hbVars, hbCancel, waitTimer, sinkVars>>

\* CancelledError at line 121: no handler of the call catches it
CancelAtInitial(c) ==
  /\ cancelReq[c]
  /\ pc[c] = "await0"
  /\ sinkCall' = [sinkCall EXCEPT ![c] = NoSinkCall]
  /\ outcome' = [outcome EXCEPT ![c] = Escaped("CancelledError")]
  /\ pc' = [pc EXCEPT ![c] = "done"]
  /\ UNCHANGED <<now, inputVars, toolVars, cancelReq, exportVars, stop,
                 hbVars, hbCancel, waitTimer, sinkLog>>

\* CancelledError at line 142: wait_for cancels the task and awaits it
CancelAtWait(c) ==
  /\ cancelReq[c]
  /\ pc[c] = "waitHb"
  /\ hb[c] # "done"
  /\ hbCancel' = [hbCancel EXCEPT ![c] = TRUE]
  /\ pc' = [pc EXCEPT ![c] = "cancelWait"]
  /\ UNCHANGED <<now, inputVars, toolVars, outcome, cancelReq, exportVars,
                 stop, hbVars, waitTimer, sinkVars>>

CancelledDone(c) ==
  /\ pc[c] = "cancelWait"
  /\ hb[c] = "done"
  /\ outcome' = [outcome EXCEPT ![c] = Escaped("CancelledError")]
  /\ pc' = [pc EXCEPT ![c] = "done"]
  /\ UNCHANGED <<now, inputVars, toolVars, cancelReq, exportVars, stop,
                 hbVars, hbCancel, waitTimer, sinkVars>>

(***************************************************************************)
(* _send_periodic_progress, lines 217-234.                                 *)
(***************************************************************************)
\* a counter that skips a value
NextProgressMut(n) == n + 2

\* line 227: progress_count += 1
NextProgress(n) == n + 1

\* lines 223-224: the loop test, then asyncio.sleep(1.0)
LoopTop(c) ==
  IF stop[c]
  THEN /\ hb' = [hb EXCEPT ![c] = "done"]
       /\ UNCHANGED hbTimer
  ELSE /\ hb' = [hb EXCEPT ![c] = "sleeping"]
       /\ hbTimer' = [hbTimer EXCEPT ![c] = now + SleepTicks]

\* lines 221-224: the task's first step
HbStart(c) ==
  /\ hb[c] = "ready"
  /\ ~hbCancel[c]
  /\ hbCount' = [hbCount EXCEPT ![c] = FirstProgress]
  /\ LoopTop(c)
  /\ UNCHANGED <<now, inputVars, pc, toolVars, outcome, cancelReq, exportVars,
                 stop, hbCancel, waitTimer, sinkVars>>

\* one stop event for all calls
StoppedAfterSleepShared(c) == \E d \in Calls : stop[d]

\* the stop event not read again after the sleep
StoppedAfterSleepMut(c) == FALSE

\* line 225: if not stop_event.is_set()
StoppedAfterSleep(c) == stop[c]

\* lines 225-226: the sleep is over; report unless stopped
HbWake(c) ==
  /\ hb[c] = "sleeping"
  /\ ~hbCancel[c]
  /\ now >= hbTimer[c]
  /\ IF ~StoppedAfterSleep(c)
     THEN /\ \E b \in SinkBehaviours({<<>>}) : CallSink(c, "hb", hbCount[c], b)
          /\ hb' = [hb EXCEPT ![c] = "inSink"]
     ELSE /\ hb' = [hb EXCEPT ![c] = "done"]
          /\ UNCHANGED sinkVars
  /\ UNCHANGED <<now, inputVars, pc, toolVars, outcome, cancelReq, exportVars,
                 stop, hbCount, hbTimer, hbCancel, waitTimer>>

\* lines 226-230, 223-224: report_progress returned
HbSinkReturn(c) ==
  /\ hb[c] = "inSink"
  /\ ~hbCancel[c]
  /\ SinkDue(c, "hb", "ok")
  /\ sinkCall' = [sinkCall EXCEPT ![c] = NoSinkCall]
  /\ hbCount' = [hbCount EXCEPT ![c] = NextProgress(@)]
  /\ LoopTop(c)
  /\ UNCHANGED <<now, inputVars, pc, toolVars, outcome, cancelReq, exportVars,
                 stop, hbCancel, waitTimer, sinkLog>>

\* a failure of the sink that also ends the export
HbSinkRaiseMut(c) ==
  /\ hb[c] = "inSink"
  /\ ~hbCancel[c]
  /\ SinkDue(c, "hb", "raise")
  /\ sinkCall' = [sinkCall EXCEPT ![c] = NoSinkCall]
  /\ hb' = [hb EXCEPT ![c] = "done"]
  /\ exState' = [exState EXCEPT ![c] = IF @ = "running" THEN "failed" ELSE @]
  /\ UNCHANGED <<now, inputVars, pc, toolVars, outcome, cancelReq, exStarts,
                 exBegin, exEnd, exErr, stop, hbCount, hbTimer, hbCancel,
                 waitTimer, sinkLog>>

\* lines 233-234: report_progress raised; logged, and the task ends
HbSinkRaise(c) ==
  /\ hb[c] = "inSink"
  /\ ~hbCancel[c]
  /\ SinkDue(c, "hb", "raise")
  /\ sinkCall' = [sinkCall EXCEPT ![c] = NoSinkCall]
  /\ hb' = [hb EXCEPT ![c] = "done"]
  /\ UNCHANGED <<now, inputVars, pc, toolVars, outcome, cancelReq, exportVars,
                 stop, hbCount, hbTimer, hbCancel, waitTimer, sinkLog>>

\* lines 231-232: CancelledError at the sleep or in the sink call
HbCancelled(c) ==
  /\ hbCancel[c]
  /\ hb[c] \in {"ready", "sleeping", "inSink"}
  /\ hb' = [hb EXCEPT ![c] = "done"]
  /\ sinkCall' = [sinkCall EXCEPT ![c] =
       IF @.active /\ @.by = "hb" THEN NoSinkCall ELSE @]
  /\ UNCHANGED <<now, inputVars, pc, toolVars, outcome, cancelReq, exportVars,
                 stop, hbCount, hbTimer, hbCancel, waitTimer, sinkLog>>

(***************************************************************************)
(* The clock.                                                              *)
(***************************************************************************)
\* a step of call c is due now
Urgent(c) ==
  \/ pc[c] \in {"start", "build", "resolve", "emit0", "spawn", "finish"}
  \/ pc[c] = "await0" /\ sinkCall[c].res # "hang" /\ now >= sinkCall[c].ret
  \/ pc[c] = "await0" /\ cancelReq[c]
  \/ exState[c] = "running" /\ now >= exEnd[c]
  \/ pc[c] = "awaitExport" /\ exState[c] \in {"ok", "failed"}
  \/ pc[c] = "waitHb" /\ (hb[c] = "done" \/ TimedOut(c) \/ cancelReq[c])
  \/ pc[c] \in {"waitCancel", "cancelWait"} /\ hb[c] = "done"
  \/ hb[c] = "ready"
  \/ hb[c] = "sleeping" /\ now >= hbTimer[c]
  \/ hb[c] = "inSink" /\ sinkCall[c].res # "hang" /\ now >= sinkCall[c].ret
  \/ hbCancel[c] /\ hb[c] \in {"ready", "sleeping", "inSink"}

Running(c) ==
  \/ pc[c] \notin {"unused", "done"}
  \/ hb[c] \in {"ready", "sleeping", "inSink"}

Tick ==
  /\ now < MaxTime
  /\ \E c \in Calls : Running(c)
  /\ \A c \in Calls : ~Urgent(c)
  /\ now' = now + 1
  /\ UNCHANGED <<inputVars, pc, toolVars, outcome, cancelReq, exportVars,
                 stop, hbVars, hbCancel, waitTimer, sinkVars>>

(***************************************************************************)
(* Specifications.                                                         *)
(***************************************************************************)
\* requests of the tool calls: a structured Bearer header, a raw Bearer
\* pair, a structured header with an empty token, no request context
CallRequests ==
  {Request("obj", "obj", "map", StrV(sBearer \o sXYZ), NoneV, "none", <<>>),
   Request("obj", "noattr", "noattr", NoneV, NoneV, "list",
           <<Pair(sAuthorizationLower, sBearer \o sT1)>>),
   Request("obj", "obj", "map", StrV(sBearer), NoneV, "none", <<>>),
   Request("none", "noattr", "noattr", NoneV, NoneV, "none", <<>>)}

CallUrls == {uDocsUrl, uBareId, uNotValid, <<>>}

IdleRequest == Request("none", "noattr", "noattr", NoneV, NoneV, "none", <<>>)

\* everything but the inputs, before the first call starts
InitRest(active) ==
  /\ now = 0
  /\ pc = [c \in Calls |-> IF c \in active THEN "start" ELSE "unused"]
  /\ token = [c \in Calls |-> UnsetV]
  /\ fileId = [c \in Calls |-> UnsetV]
  /\ builds = [c \in Calls |-> 0]
  /\ buildErr = [c \in Calls |-> NoError]
  /\ outcome = [c \in Calls |-> NoOutcome]
  /\ cancelReq = [c \in Calls |-> FALSE]
  /\ exState = [c \in Calls |-> "idle"]
  /\ exStarts = [c \in Calls |-> 0]
  /\ exBegin = [c \in Calls |-> 0]
  /\ exEnd = [c \in Calls |-> 0]
  /\ exErr = [c \in Calls |-> <<>>]
  /\ stop = [c \in Calls |-> FALSE]
  /\ hb = [c \in Calls |-> "none"]
  /\ hbCount = [c \in Calls |-> 0]
  /\ hbTimer = [c \in Calls |-> 0]
  /\ hbCancel = [c \in Calls |-> FALSE]
  /\ waitTimer = [c \in Calls |-> 0]
  /\ sinkCall = [c \in Calls |-> NoSinkCall]
  /\ sinkLog = [c \in Calls |-> <<>>]

\* one tool call
Init ==
  /\ \E r \in CallRequests : req = [c \in Calls |-> IF c = "c1" THEN r ELSE IdleRequest]
  /\ \E u \in CallUrls : url = [c \in Calls |-> IF c = "c1" THEN u ELSE <<>>]
  /\ \E k \in BOOLEAN : hasSink = [c \in Calls |-> c = "c1" /\ k]
  /\ InitRest({"c1"})

Step(c) ==
  \/ ExtractToken(c)
  \/ BuildService(c)
  \/ ResolveId(c)
  \/ EmitInitial(c)
  \/ InitialReturn(c)
  \/ InitialRaise(c)
  \/ StartExport(c)
  \/ ExportFinish(c)
  \/ OrchResume(c)
  \/ WaitDone(c)
  \/ WaitTimeout(c)
  \/ TimeoutCaught(c)
  \/ Conclude(c)
  \/ Cancel(c)
  \/ CancelAtInitial(c)
  \/ CancelAtWait(c)
  \/ CancelledDone(c)
  \/ HbStart(c)
  \/ HbWake(c)
  \/ HbSinkReturn(c)
  \/ HbSinkRaise(c)
  \/ HbCancelled(c)

Next == (\E c \in Calls : Step(c)) \/ Tick

Spec == Init /\ [][Next]_vars

\* the exports followed under fairness: they take at most FairMaxDur ticks
\* and end with the text, an authentication failure or another failure
FairInputs ==
  \A c \in Calls :
    /\ exEnd[c] - exBegin[c] <= FairMaxDur
    /\ exErr[c] \in {<<>>, mUnauthorized, mNotFound}

\* a call with a token and a document url, with and without a sink
InitFair ==
  /\ req = [c \in Calls |-> IF c = "c1"
            THEN Request("obj", "obj", "map", StrV(sBearer \o sXYZ), NoneV, "none", <<>>)
            ELSE IdleRequest]
  /\ url = [c \in Calls |-> IF c = "c1" THEN uDocsUrl ELSE <<>>]
  /\ \E k \in BOOLEAN : hasSink = [c \in Calls |-> c = "c1" /\ k]
  /\ InitRest({"c1"})

\* the steps of Step(c) that the program takes itself, the export's inputs
\* kept within FairInputs
FairRun(c) ==
  \/ ExtractToken(c)
  \/ BuildService(c)
  \/ ResolveId(c)
  \/ EmitInitial(c)
  \/ InitialReturn(c)
  \/ InitialRaise(c)
  \/ StartExport(c) /\ FairInputs'
  \/ ExportFinish(c) /\ FairInputs'
  \/ OrchResume(c)
  \/ WaitDone(c)
  \/ WaitTimeout(c)
  \/ TimeoutCaught(c)
  \/ Conclude(c)
  \/ CancelAtInitial(c)
  \/ CancelAtWait(c)
  \/ CancelledDone(c)
  \/ HbStart(c)
  \/ HbWake(c)
  \/ HbSinkReturn(c)
  \/ HbSinkRaise(c)
  \/ HbCancelled(c)

\* the client may cancel the request, or never do so
FairStep(c) == FairRun(c) \/ Cancel(c)

NextFair == (\E c \in Calls : FairStep(c)) \/ Tick

\* the event loop runs every step of the program that is due, and time
\* passes
FairSpec ==
  /\ InitFair /\ [][NextFair]_vars
  /\ \A c \in Calls : WF_vars(FairRun(c))
  /\ WF_vars(Tick)

\* the two calls followed together: the session is built, and the export
\* takes at most TwoMaxDur ticks and ends with the text or a failure
TwoInputs ==
  \A c \in Calls :
    /\ buildErr[c] = NoError
    /\ exEnd[c] - exBegin[c] <= TwoMaxDur
    /\ exErr[c] \in {<<>>, mNotFound}

\* two calls with a token, a document url and a sink each, begun together
InitTwo ==
  /\ req = [c \in Calls |->
            Request("obj", "obj", "map", StrV(sBearer \o sXYZ), NoneV, "none", <<>>)]
  /\ url = [c \in Calls |-> IF c = "c1" THEN uDocsUrl ELSE uBareId]
  /\ hasSink = [c \in Calls |-> TRUE]
  /\ InitRest(Calls)

\* the steps of a call that the client does not cancel
TwoStep(c) ==
  \/ ExtractToken(c)
  \/ BuildService(c) /\ TwoInputs'
  \/ ResolveId(c)
  \/ EmitInitial(c)
  \/ InitialReturn(c)
  \/ InitialRaise(c)
  \/ StartExport(c) /\ TwoInputs'
  \/ ExportFinish(c) /\ TwoInputs'
  \/ OrchResume(c)
  \/ WaitDone(c)
  \/ WaitTimeout(c)
  \/ TimeoutCaught(c)
  \/ Conclude(c)
  \/ HbStart(c)
  \/ HbWake(c)
  \/ HbSinkReturn(c)
  \/ HbSinkRaise(c)
  \/ HbCancelled(c)

NextTwo == (\E c \in Calls : TwoStep(c)) \/ Tick

\* two concurrent calls on one event loop
SpecTwo == InitTwo /\ [][NextTwo]_vars

\* extract_bearer_token alone, over every shape of the request
InitToken ==
  /\ \E r \in AllRequests : req = [c \in Calls |-> IF c = "c1" THEN r ELSE IdleRequest]
  /\ url = [c \in Calls |-> <<>>]
  /\ hasSink = [c \in Calls |-> FALSE]
  /\ InitRest({"c1"})

NextToken == \E c \in Calls : ExtractToken(c)

SpecToken == InitToken /\ [][NextToken]_vars

\* the fragments input strings are put together from: the two patterns'
\* prefixes, identifier characters, a separator and a blank
UrlParts ==
  {sSlashD, sIdEq, <<"A","1">>, <<"x","-","_">>, <<"&">>, <<" ">>}

RECURSIVE Concat(_)
Concat(parts) == IF parts = <<>> THEN <<>> ELSE Head(parts) \o Concat(Tail(parts))

AllUrls ==
  {Concat(ps) : ps \in UNION {[1..n -> UrlParts] : n \in 0..MaxUrlParts}}
  \cup {uDocsUrl, uBareId, uNotValid}

\* extract_file_id over the input strings, in a call with a token
InitResolve ==
  /\ req = [c \in Calls |-> IF c = "c1"
            THEN Request("obj", "obj", "map", StrV(sBearer \o sXYZ), NoneV, "none", <<>>)
            ELSE IdleRequest]
  /\ \E u \in AllUrls : url = [c \in Calls |-> IF c = "c1" THEN u ELSE <<>>]
  /\ hasSink = [c \in Calls |-> FALSE]
  /\ InitRest({"c1"})

NextResolve ==
  \E c \in Calls : ExtractToken(c) \/ BuildService(c) \/ ResolveId(c)

SpecResolve == InitResolve /\ [][NextResolve]_vars

(***************************************************************************)
(* Properties.                                                             *)
(***************************************************************************)
\* the values the sink of call c received, in order
Values(c) == [i \in 1..Len(sinkLog[c]) |-> sinkLog[c][i].v]

\* the sequence 0, 1, ..., k
UpTo(k) == [i \in 1..(k + 1) |-> i - 1]

Ended(c) == pc[c] = "done"

\* C1: every report_progress call on the sink of a call is made before the
\* call returns, fails or is cancelled: no call is made afterwards, and none
\* is still in flight then.
C1_NoProgressAfterReturn ==
  \A c \in Calls :
    /\ \A i \in 1..Len(sinkLog[c]) : ~sinkLog[c][i].late
    /\ Ended(c) => ~sinkCall[c].active

\* a call ended after the stop timeout expired on a heartbeat inside a sink
\* call, and after several heartbeats
C1_Witness ==
  \E c \in Calls :
    /\ Ended(c) /\ hbCancel[c] /\ hb[c] = "done"
    /\ Len(sinkLog[c]) >= 3
    /\ sinkLog[c][Len(sinkLog[c])].res = "hang"

\* C2 (as claimed): whenever a report_progress call of a call raised, the
\* initial one included, the export was still executed and the outcome of
\* the call is the outcome of the export alone.
C2_SinkFailureNeverFailsCall ==
  \A c \in Calls :
    (/\ Ended(c)
     /\ outcome[c].type # "CancelledError"
     /\ \E i \in 1..Len(sinkLog[c]) : sinkLog[c][i].res = "raise")
    => (exStarts[c] = 1 /\ outcome[c] = ExportOutcome(c))

\* C3 (as claimed): a call with a bearer token whose input resolves to no
\* identifier ends in InvalidInput, and neither the session construction
\* nor the export was invoked.
C3_InvalidInputNoBackend ==
  \A c \in Calls :
    (/\ Ended(c)
     /\ token[c].t = "str" /\ token[c].s # <<>>
     /\ extract_file_id(url[c]) = NoneV)
    => (/\ outcome[c] = ToolError("InvalidInput")
        /\ builds[c] = 0
        /\ exStarts[c] = 0)

\* C4: when the extractor yields no token the call ends in
\* AuthenticationMissing, whatever the input string, and neither the session
\* construction, the identifier resolution nor the export is invoked.
C4_NoTokenNoBackend ==
  \A c \in Calls :
    token[c] = NoneV
    => (/\ Ended(c)
        /\ outcome[c] = ToolError("AuthenticationMissing")
        /\ builds[c] = 0
        /\ fileId[c] = UnsetV
        /\ exStarts[c] = 0
        /\ sinkLog[c] = <<>>)

\* no token, with an input that would resolve
C4_Witness ==
  \E c \in Calls :
    /\ token[c] = NoneV /\ Ended(c)
    /\ extract_file_id(url[c]) # NoneV
    /\ outcome[c] = ToolError("AuthenticationMissing")

\* the duration of the blocking export of call c, in ticks
Dur(c) == exEnd[c] - exBegin[c]

\* a call with a sink that did not fail, whose export took d with k < d < k+1
C5_Case(c) ==
  /\ Ended(c) /\ hasSink[c]
  /\ exState[c] \in {"ok", "failed"}
  /\ Dur(c) % TicksPerUnit # 0
  /\ \A i \in 1..Len(sinkLog[c]) : sinkLog[c][i].res = "ok"

C6_ProgressSequence ==
  \A c \in Calls :
    /\ \A i \in 1..Len(sinkLog[c]) :
         /\ sinkLog[c][i].v = i - 1
         /\ sinkLog[c][i].by = IF i = 1 THEN "orch" ELSE "hb"
    /\ (hasSink[c] /\ (exState[c] # "idle" \/ hb[c] # "none"))
       => Len(sinkLog[c]) >= 1

\* a sink that received 0, 1, 2, 3
C6_Witness ==
  \E c \in Calls : Len(sinkLog[c]) >= 4 /\ sinkLog[c][4].v = 3

\* the phrases C7 names
C7_Phrases ==
  {sCredentials, sAuthentication, sUnauthorized, sInvalidGrant, sToken,
   sRefreshToken, sNecessaryFields}

\* C7 (as claimed): a failed export is classified AuthenticationFailure
\* exactly when its message contains, in any case, one of the seven
\* phrases, and BackendFailure otherwise.
C7_ExportClassification ==
  \A c \in Calls :
    (Ended(c) /\ exState[c] = "failed" /\ outcome[c].type = "ToolError")
    => outcome[c].kind =
         IF \E p \in C7_Phrases : Contains(Lower(exErr[c]), p)
         THEN "AuthenticationFailure" ELSE "BackendFailure"

\* the phrases C8 names
C8_Phrases ==
  {sCredentials, sAuthentication, sUnauthorized, sInvalidGrant, sToken}

C8_ByMessage(msg) ==
  IF \E p \in C8_Phrases : Contains(Lower(msg), p)
  THEN "AuthenticationFailure" ELSE "InternalFailure"

\* C8 (as claimed): a failed session construction is classified by its
\* message alone; the export is never started and no progress is emitted.
C8_BuildClassification ==
  \A c \in Calls :
    buildErr[c] # NoError
    => (/\ Ended(c)
        /\ outcome[c] = ToolError(C8_ByMessage(buildErr[c].msg))
        /\ exStarts[c] = 0
        /\ sinkLog[c] = <<>>)

\* C8 (amended): a failed import of the client libraries is InternalFailure
\* whatever its message; every other construction failure is classified by
\* its message; the export is never started and no progress is emitted.
C8_BuildClassificationButImport ==
  \A c \in Calls :
    buildErr[c] # NoError
    => (/\ Ended(c)
        /\ outcome[c] =
             ToolError(IF buildErr[c].exc = "ImportError" THEN "InternalFailure"
                       ELSE C8_ByMessage(buildErr[c].msg))
        /\ exStarts[c] = 0
        /\ sinkLog[c] = <<>>)

\* the construction failed with a message containing invalid_grant
C8_Witness ==
  \E c \in Calls :
    /\ buildErr[c].exc = "Exception"
    /\ Contains(buildErr[c].msg, sInvalidGrant)
    /\ outcome[c] = ToolError("AuthenticationFailure")
    /\ Ended(c)

\* the Authorization value the structured request exposes, if any
C9_Structured(r) ==
  IF r.rc = "obj" /\ r.request = "obj" /\ r.headers = "map"
  THEN IF Truthy(r.lower) THEN r.lower ELSE r.cap
  ELSE NoneV

\* the indices of the raw pairs named authorization with a Bearer value
C9_Matching(r) ==
  IF r.rc = "obj" /\ r.scope = "list"
  THEN {i \in 1..Len(r.pairs) :
          /\ Decodable(r.pairs[i].k) /\ Decodable(r.pairs[i].v)
          /\ Lower(r.pairs[i].k) = sAuthorizationLower
          /\ StartsWith(r.pairs[i].v, sBearer)}
  ELSE {}

C9_WellFormed(r) ==
  /\ C9_Structured(r).t # "other"
  /\ \A i \in 1..Len(r.pairs) : r.pairs[i].t = "pair"

\* C9: a structured Authorization value with the Bearer prefix yields its
\* remainder, whatever the raw pairs; otherwise the raw pairs are scanned
\* and the first pair named authorization (in any case) with a Bearer value
\* yields its remainder; otherwise the result is None.
C9_FallbackChain ==
  \A c \in Calls :
    (pc[c] # "unused" /\ token[c] # UnsetV) =>
      LET r == req[c]
          h == C9_Structured(r)
          m == C9_Matching(r)
      IN IF h.t = "str" /\ StartsWith(h.s, sBearer)
         THEN token[c] = StrV(SubSeq(h.s, Len(sBearer) + 1, Len(h.s)))
         ELSE C9_WellFormed(r) =>
                IF m = {} THEN token[c] = NoneV
                ELSE LET i == CHOOSE a \in m : \A b \in m : a <= b
                     IN token[c] = StrV(SubSeq(r.pairs[i].v, Len(sBearer) + 1,
                                               Len(r.pairs[i].v)))

\* a structured header of another scheme, and the token of a raw pair
C9_Witness ==
  \E c \in Calls :
    /\ req[c].lower = StrV(sBasic \o sXYZ)
    /\ req[c].scope = "list"
    /\ token[c] = StrV(sT2)

\* C10: extract_bearer_token never raises: whatever the request, the result
\* is a token or None.
C10_NeverRaises ==
  \A c \in Calls :
    /\ token[c].t \in {"unset", "none", "str"}
    /\ outcome[c].type # "Exception"

\* an internal error during extraction (a header entry that is no pair of
\* bytes), reported as None
C10_Witness ==
  \E c \in Calls :
    /\ ExtractBody(req[c]) = RaisedV
    /\ req[c].rc = "obj"
    /\ token[c] = NoneV

\* the first index of "/d/" followed by an identifier character, or 0
C11_FirstPath(u) ==
  LET at == {i \in 1..(Len(u) - 3) :
               /\ u[i] = "/" /\ u[i + 1] = "d" /\ u[i + 2] = "/"
               /\ u[i + 3] \in IdChars}
  IN IF at = {} THEN 0 ELSE CHOOSE a \in at : \A b \in at : a <= b

\* id is the longest run of identifier characters of u that starts at index i
C11_IsRunAt(u, i, id) ==
  /\ Len(id) >= 1
  /\ i + Len(id) - 1 <= Len(u)
  /\ \A k \in 1..Len(id) : id[k] = u[i + k - 1] /\ id[k] \in IdChars
  /\ i + Len(id) > Len(u) \/ u[i + Len(id)] \notin IdChars

\* C11: for an input with a segment "/d/" followed by an identifier
\* character, extract_file_id returns the longest run of identifier
\* characters after the first such "/d/", whatever "id=" the input holds,
\* before or after it.
C11_PathWins ==
  \A c \in Calls :
    (fileId[c] # UnsetV /\ C11_FirstPath(url[c]) # 0)
    => (/\ fileId[c].t = "str"
        /\ C11_IsRunAt(url[c], C11_FirstPath(url[c]) + 3, fileId[c].s))

\* an input whose "id=A1" comes before its "/d/x-_", resolved to x-_
C11_Witness ==
  \E c \in Calls :
    /\ url[c] = sIdEq \o <<"A","1">> \o sSlashD \o <<"x","-","_">>
    /\ fileId[c] = StrV(<<"x","-","_">>)

\* u holds "id=" followed by an identifier character
C12_HasQuery(u) ==
  \E i \in 1..(Len(u) - 3) :
    u[i] = "i" /\ u[i + 1] = "d" /\ u[i + 2] = "=" /\ u[i + 3] \in IdChars

\* the pieces of u that are identifier characters only and have nothing
\* but blanks around them in u: none or one
C12_Bare(u) ==
  {SubSeq(u, lo, hi) : <<lo, hi>> \in
     {p \in (1..Len(u)) \X (1..Len(u)) :
        /\ p[1] <= p[2]
        /\ \A k \in 1..Len(u) :
             IF k < p[1] \/ k > p[2] THEN u[k] \in Whitespace
             ELSE u[k] \in IdChars}}

\* C12: for an input with neither a "/d/<id>" segment nor an "id=<id>"
\* parameter, extract_file_id returns the input without its surrounding
\* blanks when all of that is letters, digits, hyphens and underscores, and
\* None otherwise (the empty string, an inner blank, other characters).
C12_BareOrNone ==
  \A c \in Calls :
    (/\ fileId[c] # UnsetV
     /\ C11_FirstPath(url[c]) = 0
     /\ ~C12_HasQuery(url[c]))
    => IF C12_Bare(url[c]) # {}
       THEN \E t \in C12_Bare(url[c]) : fileId[c] = StrV(t)
       ELSE fileId[c] = NoneV

\* a bare id between blanks is returned without them, and an id with an
\* inner blank is None
C12_Witness ==
  \E c \in Calls :
    /\ url[c] = <<" ", "A", "1", " ">>
    /\ fileId[c] = StrV(<<"A", "1">>)

\* the raw pairs of r are scanned: the structured shape gave no token and
\* every entry of the list is a pair of bytes
C18_Scanned(r) ==
  /\ r.rc = "obj" /\ r.scope = "list"
  /\ StructuredShape(r) = FallThrough
  /\ \A i \in 1..Len(r.pairs) : r.pairs[i].t = "pair"

\* the pair at index i does not decode as UTF-8
C18_Undecodable(r, i) ==
  ~Decodable(r.pairs[i].k) \/ ~Decodable(r.pairs[i].v)

\* the pair at index j decodes, is named authorization in any case and has
\* a Bearer value
C18_BearerPair(r, j) ==
  /\ ~C18_Undecodable(r, j)
  /\ Lower(r.pairs[j].k) = sAuthorizationLower
  /\ StartsWith(r.pairs[j].v, sBearer)

\* C18: in the scan of the raw pairs a pair whose name or value is not
\* valid UTF-8 is skipped and the scan goes on: when an undecodable pair is
\* followed later by the first authorization pair with a Bearer value, the
\* result is that pair's token.
C18_UndecodableSkipped ==
  \A c \in Calls :
    (token[c] # UnsetV /\ C18_Scanned(req[c])) =>
      \A i \in 1..Len(req[c].pairs), j \in 1..Len(req[c].pairs) :
        (/\ i < j
         /\ C18_Undecodable(req[c], i)
         /\ C18_BearerPair(req[c], j)
         /\ \A k \in 1..(j - 1) : ~C18_BearerPair(req[c], k))
        => token[c] = StrV(DropFirst(req[c].pairs[j].v, Len(sBearer)))

\* an undecodable pair before the pair (authorization, "Bearer T1"), and T1
\* returned
C18_Witness ==
  \E c \in Calls :
    /\ C18_Scanned(req[c])
    /\ Len(req[c].pairs) >= 2
    /\ C18_Undecodable(req[c], 1)
    /\ req[c].pairs[2] = Pair(sAuthorizationLower, sBearer \o sT1)
    /\ token[c] = StrV(sT1)

\* C19: every token extract_bearer_token returns is a non-empty string; an
\* Authorization value that is just "Bearer " gives None.
C19_TokenNonEmpty ==
  \A c \in Calls : token[c].t = "str" => Len(token[c].s) >= 1

\* C20: in the scan of the raw pairs an authorization pair without the
\* Bearer prefix does not end the scan: the result is the token of the
\* first decodable pair named authorization (in any case) whose value starts
\* with "Bearer ", also after an authorization pair of another scheme, and
\* None only when no pair is both.
C20_FirstBearerPair ==
  \A c \in Calls :
    (token[c] # UnsetV /\ C18_Scanned(req[c])) =>
      LET r == req[c]
          n == Len(r.pairs)
      IN /\ \A j \in 1..n :
              (C18_BearerPair(r, j) /\ \A k \in 1..(j - 1) : ~C18_BearerPair(r, k))
              => token[c] = StrV(DropFirst(r.pairs[j].v, Len(sBearer)))
         /\ token[c] = NoneV <=> \A j \in 1..n : ~C18_BearerPair(r, j)

\* [authorization: Basic XYZ, AUTHORIZATION: Bearer T2] gives T2
C20_Witness ==
  \E c \in Calls :
    /\ C18_Scanned(req[c])
    /\ req[c].pairs = <<Pair(sAuthorizationLower, sBasic \o sXYZ),
                        Pair(sAuthorizationUpper, sBearer \o sT2)>>
    /\ token[c] = StrV(sT2)

\* the wait for the heartbeat lasts no longer than the stop timeout
C13_WaitBounded ==
  \A c \in Calls :
    pc[c] = "waitHb" => now <= waitTimer[c]

\* C13: once the blocking export has resolved, with success or a failure,
\* the orchestrator returns: it waits for the heartbeat no longer than the
\* stop timeout, and neither a sleeping heartbeat nor one stuck in a sink
\* call blocks the return for ever.
C13_ReturnsAfterExport ==
  /\ []C13_WaitBounded
  /\ \A c \in Calls : (exState[c] \in {"ok", "failed"}) ~> (pc[c] = "done")

\* the heartbeat was stuck in a sink call that never returns, was cancelled
\* at the stop timeout, and the call returned the text
C13_Witness ==
  \E c \in Calls :
    /\ pc[c] = "done" /\ outcome[c] = Returned("Success")
    /\ hbCancel[c]
    /\ Len(sinkLog[c]) >= 2
    /\ sinkLog[c][Len(sinkLog[c])].res = "hang"
    /\ now = exEnd[c] + TimeoutTicks

\* the kinds of reported failure
C14_Kinds ==
  {"AuthenticationMissing", "AuthenticationFailure", "InvalidInput",
   "BackendFailure", "InternalFailure"}

\* C14: every tool call that does not succeed ends in a ToolError of one of
\* the kinds: a failure of the session's construction, of the resolution of
\* the identifier or of the export (also one raised while the heartbeat
\* runs) is classified and converted, and no exception of the backend
\* leaves the tool as it is.  A call the client cancelled ends with the
\* cancellation.
C14_FailuresReported ==
  \A c \in Calls :
    /\ outcome[c].type \in {"none", "return", "ToolError", "CancelledError"}
    /\ outcome[c].type = "CancelledError" => cancelReq[c]
    /\ outcome[c].type = "ToolError" => outcome[c].kind \in C14_Kinds
    /\ (Ended(c) /\ outcome[c].type # "CancelledError") =>
         /\ outcome[c].type = "return" <=> exState[c] = "ok"
         /\ buildErr[c] # NoError => outcome[c].type = "ToolError"
         /\ fileId[c] = NoneV => outcome[c] = ToolError("InvalidInput")
         /\ exState[c] = "failed" =>
              /\ outcome[c].type = "ToolError"
              /\ outcome[c].kind \in {"AuthenticationFailure", "BackendFailure"}

\* an export that failed after the heartbeat had emitted a value, reported
\* as a ToolError
C14_Witness ==
  \E c \in Calls :
    /\ Ended(c) /\ exState[c] = "failed"
    /\ \E i \in 1..Len(sinkLog[c]) : sinkLog[c][i].by = "hb"
    /\ outcome[c] = ToolError("BackendFailure")

\* the call got past the initial emission: the session was built, the
\* identifier resolved, and report_progress(0) neither failed nor hung nor
\* was cancelled
C16_PastInitial(c) ==
  /\ Truthy(fileId[c])
  /\ hasSink[c] => (Len(sinkLog[c]) >= 1 /\ sinkLog[c][1].res = "ok")
  /\ ~(cancelReq[c] /\ exState[c] = "idle")

\* the export is started once and has resolved when the call ends
C16_StartedOnce ==
  \A c \in Calls :
    /\ exStarts[c] <= 1
    /\ exState[c] # "idle" <=> exStarts[c] = 1
    /\ (Ended(c) /\ C16_PastInitial(c)) =>
         exStarts[c] = 1 /\ exState[c] \in {"ok", "failed"}

\* a running export ends only at its own end, and nothing moves that end
C16_ExportUndisturbed ==
  \A c \in Calls :
    exState[c] = "running" =>
      /\ exEnd'[c] = exEnd[c] /\ exBegin'[c] = exBegin[c]
      /\ exState'[c] # "running" =>
           now >= exEnd[c] /\ exState'[c] \in {"ok", "failed"}

\* C16: in a call whose session was built and that the initial emission did
\* not abort, the blocking export is started exactly once and not retried
\* after a failure, and no step of the heartbeat (an emission, a failure of
\* the sink, the stop signal, the stop timeout, the cancellation) ends the
\* export before its own end: only the heartbeat task is cancelled.
C16_ExportOnceUndisturbed ==
  []C16_StartedOnce /\ [][C16_ExportUndisturbed]_vars

\* an export that failed and was not started again, in a call whose
\* heartbeat met a failing sink and another whose heartbeat was cancelled
C16_Witness ==
  \E c \in Calls :
    /\ Ended(c) /\ C16_PastInitial(c)
    /\ exState[c] = "failed" /\ exStarts[c] = 1
    /\ hbCancel[c]
    /\ \E i \in 1..Len(sinkLog[c]) : sinkLog[c][i].by = "hb"

\* the flag is set only where the orchestrator is past the export, and is
\* set in every call with a heartbeat that has ended
C17_SetAfterExport ==
  \A c \in Calls :
    /\ stop[c] =>
         /\ exState[c] \in {"ok", "failed"}
         /\ pc[c] \in {"waitHb", "waitCancel", "cancelWait", "finish", "done"}
    /\ (Ended(c) /\ hb[c] # "none") => stop[c]

\* the flag changes once, from clear to set, in the orchestrator's step
\* after the export and in no step of the heartbeat; once it is set no
\* further value is emitted
C17_SetOnce ==
  \A c \in Calls :
    /\ stop[c] => stop'[c]
    /\ stop'[c] # stop[c] =>
         /\ pc[c] = "awaitExport" /\ pc'[c] = "waitHb"
         /\ exState[c] \in {"ok", "failed"}
         /\ hb'[c] = hb[c] /\ hbCount'[c] = hbCount[c]
    /\ (stop[c] \/ stop'[c]) => sinkLog'[c] = sinkLog[c]

\* C17: in a call that started a heartbeat task the stop flag is set exactly
\* once, by the orchestrator and only after the blocking export has
\* resolved; the heartbeat reads the flag and never sets or clears it, and
\* begins no emission once it is set.
C17_StopFlag ==
  []C17_SetAfterExport /\ [][C17_SetOnce]_vars

\* a heartbeat that had emitted a value, slept when the flag was set, and
\* ended by itself without another emission
C17_Witness ==
  \E c \in Calls :
    /\ Ended(c) /\ stop[c] /\ hb[c] = "done" /\ ~hbCancel[c]
    /\ Len(sinkLog[c]) >= 2
    /\ sinkLog[c][Len(sinkLog[c])].res = "ok"
    /\ hbCount[c] = Len(sinkLog[c])

\* what the heartbeat of call c works with
C15_Heartbeat(c) ==
  <<hb[c], hbCount[c], hbTimer[c], hbCancel[c], stop[c], sinkCall[c], sinkLog[c]>>

\* what the orchestrator of call c works with
C15_Orchestrator(c) ==
  <<pc[c], exState[c], stop[c], hbCancel[c], waitTimer[c], outcome[c]>>

\* a step of one call, of its orchestrator or of its heartbeat, leaves the
\* heartbeat, the counter, the stop flag and the sink of the other as they
\* are, and a value delivered to a sink is the one of the call's own counter
C15_OwnState ==
  \A c \in Calls :
    /\ \A d \in Calls \ {c} :
         (C15_Orchestrator(c)' # C15_Orchestrator(c) \/ C15_Heartbeat(c)' # C15_Heartbeat(c))
         => C15_Heartbeat(d)' = C15_Heartbeat(d)
    /\ Len(sinkLog'[c]) > Len(sinkLog[c]) =>
         /\ Len(sinkLog'[c]) = Len(sinkLog[c]) + 1
         /\ sinkLog'[c][Len(sinkLog'[c])].v =
              IF sinkLog'[c][Len(sinkLog'[c])].by = "orch" THEN 0 ELSE hbCount[c]

\* beside an immediate sink every call delivers the values its own export's
\* duration gives, whatever the other call does
C15_OwnCadence ==
  \A c \in Calls :
    (C5_Case(c) /\ \A i \in 1..Len(sinkLog[c]) : sinkLog[c][i].delay = 0)
    => Values(c) = UpTo(Dur(c) \div TicksPerUnit)

\* C15: two orchestrator invocations that run concurrently are independent:
\* each has its own heartbeat task, counter and stop flag; setting the flag
\* of one or finishing it does not stop, delay or cancel the heartbeat of
\* the other, and no value of one is delivered to the sink of the other.
C15_Independent ==
  []C15_OwnCadence /\ [][C15_OwnState]_vars

\* the export of c1 ended and its flag was set before the heartbeat of c2
\* woke for the first time, and c2 still delivered all its values
C15_Witness ==
  /\ Ended("c1") /\ Ended("c2")
  /\ stop["c1"] /\ stop["c2"]
  /\ exEnd["c1"] < exBegin["c2"] + SleepTicks
  /\ C5_Case("c2")
  /\ Len(sinkLog["c2"]) >= 2
  /\ Values("c2") = UpTo(Dur("c2") \div TicksPerUnit)
  /\ Values("c1") = <<0>>

====
